---- MODULE Spec2Model ----
(***************************************************************************)
(* Board interaction controller of the chess UI                            *)
(* (src/app/components/ChessBoard.tsx, the component of lines 203-438)     *)
(* together with the part of the chess.js rules engine it calls:           *)
(* get, turn, moves, move, fen, load (new Chess(fen)), board, history.     *)
(*                                                                         *)
(* A square is the pair <<char code of its file, rank>>, as line 321       *)
(* builds it: String.fromCharCode(97 + j) and 8 - i.                       *)
(*                                                                         *)
(* The engine is the one the handlers are written for: game.move changes   *)
(* the engine object in place and returns the move when it is legal, and   *)
(* throws, leaving the object as it was, when it is not (the try/catch of  *)
(* lines 265-288 and 296-311).                                             *)
(*                                                                         *)
(* One input event is resolved, effects included, before the next: every   *)
(* action is a whole handler followed by the effects its state changes     *)
(* trigger.                                                                *)
(***************************************************************************)
EXTENDS Integers, Sequences, FiniteSets, TLC

(***************************************************************************)
(* Bounds of the exploration.                                              *)
(***************************************************************************)
\* accepted moves explored from the initial position
MaxMoves == 9

(***************************************************************************)
(* Squares and pieces.                                                     *)
(***************************************************************************)
CharCodeA == 97
BoardSize == 8

Files == CharCodeA .. (CharCodeA + BoardSize - 1)
Ranks == 1 .. BoardSize
Squares == Files \X Ranks

\* the value of `selectedPiece` when it is null
NoSquare == <<0, 0>>

\* the result of game.get on an empty square
NoPiece == [type |-> "none", color |-> "none"]

Piece(c, t) == [type |-> t, color |-> c]

Other(c) == IF c = "w" THEN "b" ELSE "w"

OnBoard(sq) == sq[1] \in Files /\ sq[2] \in Ranks

Shift(sq, d, k) == <<sq[1] + k * d[1], sq[2] + k * d[2]>>

RookDirs == {<<1, 0>>, <<-1, 0>>, <<0, 1>>, <<0, -1>>}
BishopDirs == {<<1, 1>>, <<1, -1>>, <<-1, 1>>, <<-1, -1>>}
KingDirs == RookDirs \cup BishopDirs
KnightDirs == {<<1, 2>>, <<2, 1>>, <<-1, 2>>, <<-2, 1>>,
               <<1, -2>>, <<2, -1>>, <<-1, -2>>, <<-2, -1>>}

\* the direction a pawn of colour c advances, its start rank and its last rank
PawnDir(c) == IF c = "w" THEN 1 ELSE -1
PawnStartRank(c) == IF c = "w" THEN 2 ELSE BoardSize - 1
PawnLastRank(c) == IF c = "w" THEN BoardSize ELSE 1
BackRank(c) == IF c = "w" THEN 1 ELSE BoardSize

FileOf(ch) == CharCodeA + ch

(***************************************************************************)
(* The rules engine: the initial position (new Chess()).                   *)
(***************************************************************************)
BackRow == <<"r", "n", "b", "q", "k", "b", "n", "r">>

StartBoard ==
  [sq \in Squares |->
     IF sq[2] = 1 THEN Piece("w", BackRow[sq[1] - CharCodeA + 1])
     ELSE IF sq[2] = 2 THEN Piece("w", "p")
     ELSE IF sq[2] = BoardSize - 1 THEN Piece("b", "p")
     ELSE IF sq[2] = BoardSize THEN Piece("b", BackRow[sq[1] - CharCodeA + 1])
     ELSE NoPiece]

NewChess ==
  [board |-> StartBoard, turn |-> "w", castling |-> {"K", "Q", "k", "q"},
   epSquare |-> NoSquare, halfMoves |-> 0, moveNumber |-> 1, history |-> <<>>]

(***************************************************************************)
(* The rules engine: attacks and move generation.                          *)
(***************************************************************************)
\* a piece of colour c and one of the types ts stands on sq
Holds(b, sq, c, ts) == OnBoard(sq) /\ b[sq].color = c /\ b[sq].type \in ts

\* the first piece met from sq in direction d, NoPiece when the ray leaves
\* the board first
RECURSIVE RayHit(_, _, _)
RayHit(b, sq, d) ==
  IF ~OnBoard(Shift(sq, d, 1)) THEN NoPiece
  ELSE IF b[Shift(sq, d, 1)] # NoPiece THEN b[Shift(sq, d, 1)]
  ELSE RayHit(b, Shift(sq, d, 1), d)

\* a slider of colour c and type in ts reaches sq along one of dirs
SlideAttack(b, sq, c, dirs, ts) ==
  \E d \in dirs : RayHit(b, sq, d).color = c /\ RayHit(b, sq, d).type \in ts

\* square sq is attacked by a piece of colour c
Attacked(b, sq, c) ==
  \/ \E df \in {-1, 1} : Holds(b, <<sq[1] + df, sq[2] - PawnDir(c)>>, c, {"p"})
  \/ \E d \in KnightDirs : Holds(b, Shift(sq, d, 1), c, {"n"})
  \/ \E d \in KingDirs : Holds(b, Shift(sq, d, 1), c, {"k"})
  \/ SlideAttack(b, sq, c, RookDirs, {"r", "q"})
  \/ SlideAttack(b, sq, c, BishopDirs, {"b", "q"})

KingSquares(b, c) == {sq \in Squares : b[sq] = Piece(c, "k")}

InCheck(b, c) == \E sq \in KingSquares(b, c) : Attacked(b, sq, Other(c))

MoveRec(c, from, to, p, cap, promo, flag) ==
  [color |-> c, from |-> from, to |-> to, piece |-> p, captured |-> cap,
   promotion |-> promo, flags |-> flag]

PromotionTypes == {"q", "r", "b", "n"}

\* a pawn move to square `to`: four moves when it reaches the last rank
PawnTo(c, from, to, cap, flag) ==
  IF to[2] = PawnLastRank(c)
  THEN {MoveRec(c, from, to, "p", cap, pr, flag) : pr \in PromotionTypes}
  ELSE {MoveRec(c, from, to, "p", cap, "none", flag)}

PawnMoves(g, from) ==
  LET c == g.turn
      b == g.board
      one == <<from[1], from[2] + PawnDir(c)>>
      two == <<from[1], from[2] + 2 * PawnDir(c)>>
      pushes ==
        IF OnBoard(one) /\ b[one] = NoPiece
        THEN PawnTo(c, from, one, "none", "n")
             \cup (IF from[2] = PawnStartRank(c) /\ b[two] = NoPiece
                   THEN {MoveRec(c, from, two, "p", "none", "none", "b")}
                   ELSE {})
        ELSE {}
      takes ==
        UNION {LET to == <<from[1] + df, from[2] + PawnDir(c)>> IN
                 IF ~OnBoard(to) THEN {}
                 ELSE IF b[to].color = Other(c)
                      THEN PawnTo(c, from, to, b[to].type, "c")
                 ELSE IF to = g.epSquare
                      THEN {MoveRec(c, from, to, "p", "p", "none", "e")}
                 ELSE {}
               : df \in {-1, 1}}
  IN pushes \cup takes

StepMoves(g, from, dirs) ==
  LET c == g.turn
      b == g.board
  IN {MoveRec(c, from, Shift(from, d, 1), b[from].type,
              b[Shift(from, d, 1)].type,
              "none",
              IF b[Shift(from, d, 1)] = NoPiece THEN "n" ELSE "c")
      : d \in {e \in dirs : OnBoard(Shift(from, e, 1))
                             /\ b[Shift(from, e, 1)].color # c}}

SlideMoves(g, from, dirs) ==
  LET c == g.turn
      b == g.board
      reach == {dk \in dirs \X (1 .. (BoardSize - 1)) :
                  /\ OnBoard(Shift(from, dk[1], dk[2]))
                  /\ b[Shift(from, dk[1], dk[2])].color # c
                  /\ \A j \in 1 .. (dk[2] - 1) :
                        b[Shift(from, dk[1], j)] = NoPiece}
  IN {MoveRec(c, from, Shift(from, dk[1], dk[2]), b[from].type,
              b[Shift(from, dk[1], dk[2])].type,
              "none",
              IF b[Shift(from, dk[1], dk[2])] = NoPiece THEN "n" ELSE "c")
      : dk \in reach}

\* castling of the side to move, king on its home square `from`
CastleMoves(g, from) ==
  LET c == g.turn
      b == g.board
      r == BackRank(c)
      kside == IF c = "w" THEN "K" ELSE "k"
      qside == IF c = "w" THEN "Q" ELSE "q"
      free(chs) == \A ch \in chs : b[<<FileOf(ch), r>>] = NoPiece
      safe(chs) == \A ch \in chs : ~Attacked(b, <<FileOf(ch), r>>, Other(c))
  IN IF from # <<FileOf(4), r>> \/ b[from] # Piece(c, "k") THEN {}
     ELSE (IF /\ kside \in g.castling
              /\ b[<<FileOf(7), r>>] = Piece(c, "r")
              /\ free({5, 6})
              /\ safe({4, 5, 6})
           THEN {MoveRec(c, from, <<FileOf(6), r>>, "k", "none", "none", "k")}
           ELSE {})
          \cup
          (IF /\ qside \in g.castling
              /\ b[<<FileOf(0), r>>] = Piece(c, "r")
              /\ free({1, 2, 3})
              /\ safe({4, 3, 2})
           THEN {MoveRec(c, from, <<FileOf(2), r>>, "k", "none", "none", "q")}
           ELSE {})

PseudoMoves(g, from) ==
  IF ~OnBoard(from) \/ g.board[from].color # g.turn THEN {}
  ELSE LET t == g.board[from].type IN
       IF t = "p" THEN PawnMoves(g, from)
       ELSE IF t = "n" THEN StepMoves(g, from, KnightDirs)
       ELSE IF t = "k" THEN StepMoves(g, from, KingDirs) \cup CastleMoves(g, from)
       ELSE IF t = "r" THEN SlideMoves(g, from, RookDirs)
       ELSE IF t = "b" THEN SlideMoves(g, from, BishopDirs)
       ELSE SlideMoves(g, from, KingDirs)

(***************************************************************************)
(* The rules engine: making a move on the engine's own position.           *)
(***************************************************************************)
BoardAfter(b, m) ==
  LET r == m.from[2]
      landed == IF m.promotion = "none" THEN b[m.from]
                ELSE Piece(m.color, m.promotion)
      moved == [b EXCEPT ![m.from] = NoPiece, ![m.to] = landed]
  IN IF m.flags = "e" THEN [moved EXCEPT ![<<m.to[1], r>>] = NoPiece]
     ELSE IF m.flags = "k"
          THEN [moved EXCEPT ![<<FileOf(7), r>>] = NoPiece,
                             ![<<FileOf(5), r>>] = b[<<FileOf(7), r>>]]
     ELSE IF m.flags = "q"
          THEN [moved EXCEPT ![<<FileOf(0), r>>] = NoPiece,
                             ![<<FileOf(3), r>>] = b[<<FileOf(0), r>>]]
     ELSE moved

\* the castling rights a move from or to square sq takes away
RightsLost(sq) ==
  IF sq = <<FileOf(4), 1>> THEN {"K", "Q"}
  ELSE IF sq = <<FileOf(0), 1>> THEN {"Q"}
  ELSE IF sq = <<FileOf(7), 1>> THEN {"K"}
  ELSE IF sq = <<FileOf(4), BoardSize>> THEN {"k", "q"}
  ELSE IF sq = <<FileOf(0), BoardSize>> THEN {"q"}
  ELSE IF sq = <<FileOf(7), BoardSize>> THEN {"k"}
  ELSE {}

MakeMove(g, m) ==
  [board |-> BoardAfter(g.board, m),
   turn |-> Other(g.turn),
   castling |-> (g.castling \ RightsLost(m.from)) \ RightsLost(m.to),
   epSquare |-> IF m.flags = "b"
                THEN <<m.from[1], m.from[2] + PawnDir(m.color)>>
                ELSE NoSquare,
   halfMoves |-> IF m.piece = "p" \/ m.captured # "none" THEN 0
                 ELSE g.halfMoves + 1,
   moveNumber |-> IF g.turn = "b" THEN g.moveNumber + 1 ELSE g.moveNumber,
   history |-> Append(g.history, m)]

\* the moves from one square that do not leave the mover's king, which
\* stands on k unless it is the piece that moves, attacked
LegalGivenKing(g, from, k) ==
  {m \in PseudoMoves(g, from) :
     ~Attacked(BoardAfter(g.board, m), IF m.piece = "k" THEN m.to ELSE k,
               Other(g.turn))}

\* game.moves({square, verbose: true}): the legal moves from one square
Moves(g, from) ==
  UNION {LegalGivenKing(g, from, k) : k \in KingSquares(g.board, g.turn)}

\* game.get(square)
Get(g, sq) == g.board[sq]

\* game.turn()
Turn(g) == g.turn

\* game.history({verbose: true})
History(g) == g.history

(***************************************************************************)
(* The rules engine: game.fen() and new Chess(fen).  The position string   *)
(* keeps the placement (one token list per rank, rank 8 first, runs of     *)
(* empty squares as digits), the side to move, the castling rights, the    *)
(* en-passant square and the two counters; it does not keep the moves      *)
(* played.                                                                 *)
(***************************************************************************)
Digits == <<"1", "2", "3", "4", "5", "6", "7", "8">>

PieceChar(p) ==
  IF p.color = "b" THEN p.type
  ELSE CASE p.type = "p" -> "P" [] p.type = "n" -> "N" [] p.type = "b" -> "B"
         [] p.type = "r" -> "R" [] p.type = "q" -> "Q" [] p.type = "k" -> "K"

CharPiece(ch) ==
  CASE ch = "P" -> Piece("w", "p") [] ch = "N" -> Piece("w", "n")
    [] ch = "B" -> Piece("w", "b") [] ch = "R" -> Piece("w", "r")
    [] ch = "Q" -> Piece("w", "q") [] ch = "K" -> Piece("w", "k")
    [] OTHER -> Piece("b", ch)

DigitValue(ch) == CHOOSE n \in 1 .. BoardSize : Digits[n] = ch

IsDigit(ch) == \E n \in 1 .. BoardSize : Digits[n] = ch

RECURSIVE FenRank(_, _, _, _)
FenRank(b, r, col, empties) ==
  LET flush == IF empties > 0 THEN <<Digits[empties]>> ELSE <<>> IN
  IF col = BoardSize THEN flush
  ELSE IF b[<<FileOf(col), r>>] = NoPiece THEN FenRank(b, r, col + 1, empties + 1)
  ELSE flush \o <<PieceChar(b[<<FileOf(col), r>>])>> \o FenRank(b, r, col + 1, 0)

Fen(g) ==
  [placement |-> [i \in 1 .. BoardSize |-> FenRank(g.board, BoardSize + 1 - i, 0, 0)],
   turn |-> g.turn, castling |-> g.castling, epSquare |-> g.epSquare,
   halfMoves |-> g.halfMoves, moveNumber |-> g.moveNumber]

RECURSIVE ExpandRank(_)
ExpandRank(tokens) ==
  IF tokens = <<>> THEN <<>>
  ELSE IF IsDigit(Head(tokens))
       THEN [k \in 1 .. DigitValue(Head(tokens)) |-> NoPiece] \o ExpandRank(Tail(tokens))
  ELSE <<CharPiece(Head(tokens))>> \o ExpandRank(Tail(tokens))

\* new Chess(fen): a fresh engine object on the encoded position, no history
Load(fen) ==
  [board |-> [sq \in Squares |->
                ExpandRank(fen.placement[BoardSize + 1 - sq[2]])[sq[1] - CharCodeA + 1]],
   turn |-> fen.turn, castling |-> fen.castling, epSquare |-> fen.epSquare,
   halfMoves |-> fen.halfMoves, moveNumber |-> fen.moveNumber, history |-> <<>>]

\* game.board(): rows from rank 8 down, null or {square, type, color}
BoardMatrix(g) ==
  [i \in 1 .. BoardSize |->
     [j \in 1 .. BoardSize |->
        LET sq == <<FileOf(j - 1), BoardSize + 1 - i>> IN
        IF g.board[sq] = NoPiece THEN NoPiece
        ELSE [square |-> sq, type |-> g.board[sq].type, color |-> g.board[sq].color]]]

\* the legal moves game.move({from, to, promotion}) can mean
Matching(g, from, to, promotion) ==
  {m \in Moves(g, from) : m.to = to /\ m.promotion \in {"none", promotion}}

\* game.move throws: no legal move matches
MoveThrows(g, from, to, promotion) == Matching(g, from, to, promotion) = {}

\* game.move({from, to, promotion}): [ok, move, game], game being the engine
\* object after the call (moved in place when ok, untouched when it throws)
Move(g, from, to, promotion) ==
  LET ms == Matching(g, from, to, promotion) IN
  IF ms = {}
  THEN [ok |-> FALSE, move |-> NoPiece, game |-> g]
  ELSE LET m == CHOOSE x \in ms : TRUE IN
       [ok |-> TRUE, move |-> m, game |-> MakeMove(g, m)]

(***************************************************************************)
(* The component: React state of ChessBoard and what the page's handlers   *)
(* do to it.  `st` is the record of the component's state variables; every *)
(* handler is the function from the state it closes over to the state the  *)
(* next render sees.                                                        *)
(***************************************************************************)
\* `game`, `draggedPiece` when they are null
NoGame == [null |-> TRUE]
NoDrag == [null |-> TRUE]

\* the squares the pointer events of the exploration land on: g2, g4, h7, h5,
\* g7, g6, h8.  They carry a pawn of each side through a capture (g4xh5) to a
\* capturing promotion (g7xh8), the rook of h8 to and fro, and leave every
\* other square untouched.
InputSquares ==
  {<<FileOf(6), 2>>, <<FileOf(6), 4>>, <<FileOf(7), 7>>, <<FileOf(7), 5>>,
   <<FileOf(6), 7>>, <<FileOf(6), 6>>, <<FileOf(7), 8>>}

\* the squares of the opening scenarios: e2, e4, e7, e5, d7, d5
OpeningSquares ==
  {<<FileOf(4), 2>>, <<FileOf(4), 4>>, <<FileOf(4), 7>>, <<FileOf(4), 5>>,
   <<FileOf(3), 7>>, <<FileOf(3), 5>>}

\* clientX, clientY of a drag-start event
Pointers == {<<0, 0>>}

\* a handler asking for a rook
PromotionChoiceRook == "r"

\* the promotion piece the handlers ask for (lines 269, 300)
PromotionChoice == "q"

\* useState initial values, lines 204-213
Unmounted ==
  [game |-> NoGame, selectedPiece |-> NoSquare, board |-> <<>>,
   draggedPiece |-> NoDrag, legalMoves |-> {}, moveHistory |-> <<>>,
   retired |-> NoGame]

\* IsOwnPiece without the comparison of colours
IsOwnPieceAnyColour(g, position) == Get(g, position) # NoPiece

\* piece && piece.color === (game.turn() === "w" ? "w" : "b")
IsOwnPiece(g, position) ==
  Get(g, position) # NoPiece /\ Get(g, position).color = Turn(g)

\* useEffect(..., [game]), lines 221-225
MoveHistoryEffect(s) ==
  IF s.game # NoGame THEN [s EXCEPT !.moveHistory = History(s.game)] ELSE s

\* useEffect(..., []), lines 215-219, and the effect on [game] it triggers
MountEffect(s) ==
  MoveHistoryEffect([s EXCEPT !.game = NewChess, !.board = BoardMatrix(NewChess)])

\* updateLegalMoves: the destinations of the legal moves from `position`
\* (an array in the code, read only through `includes`, line 326)
UpdateLegalMoves(s, position) ==
  IF s.game = NoGame THEN s
  ELSE [s EXCEPT !.legalMoves = {m.to : m \in Moves(s.game, position)}]

\* lines 248-250 and 261-262, 282-283: select `position`
Select(s, position) ==
  UpdateLegalMoves([s EXCEPT !.selectedPiece = position], position)

\* Deselect without setLegalMoves([])
DeselectKeepingMoves(s) == [s EXCEPT !.selectedPiece = NoSquare]

\* lines 278-279, 285-286: clear the selection
Deselect(s) == [s EXCEPT !.selectedPiece = NoSquare, !.legalMoves = {}]

\* AdoptMove with new Chess() in place of new Chess(game.fen())
AdoptMoveFresh(s, moved) ==
  MoveHistoryEffect([s EXCEPT !.game = NewChess,
                              !.board = BoardMatrix(NewChess),
                              !.moveHistory = History(NewChess),
                              !.retired = moved])

\* AdoptMove with the position string taken before the move was made
AdoptMoveStale(s, moved) ==
  LET newGame == Load(Fen(s.game)) IN
  MoveHistoryEffect([s EXCEPT !.game = newGame,
                              !.board = BoardMatrix(newGame),
                              !.moveHistory = History(newGame),
                              !.retired = moved])

\* lines 272-277 and 303-308: the engine object has made the move in place;
\* a new engine object built from its position string replaces it
AdoptMove(s, moved) ==
  LET newGame == Load(Fen(moved)) IN
  MoveHistoryEffect([s EXCEPT !.game = newGame,
                              !.board = BoardMatrix(newGame),
                              !.moveHistory = History(newGame),
                              !.retired = moved])

\* handleDragStart that records the drag before the test of line 245
handleDragStartEager(s, position, xy) ==
  LET d == [s EXCEPT !.draggedPiece =
              [position |-> position, x |-> xy[1], y |-> xy[2]]] IN
  IF s.game = NoGame THEN d
  ELSE IF IsOwnPiece(s.game, position) THEN Select(d, position)
  ELSE s

\* handleDragStart that clears the selection when the dragged piece is not
\* of the side to move
handleDragStartClearing(s, position, xy) ==
  IF s.game = NoGame THEN s
  ELSE IF IsOwnPiece(s.game, position)
       THEN Select([s EXCEPT !.draggedPiece =
                      [position |-> position, x |-> xy[1], y |-> xy[2]]],
                   position)
  ELSE Deselect(s)

\* handleDragStart without the test of line 247
handleDragStartAnyPiece(s, position, xy) ==
  IF s.game = NoGame THEN s
  ELSE Select([s EXCEPT !.draggedPiece =
                 [position |-> position, x |-> xy[1], y |-> xy[2]]],
              position)

handleDragStart(s, position, xy) ==
  IF s.game = NoGame THEN s
  ELSE IF IsOwnPiece(s.game, position)
       THEN Select([s EXCEPT !.draggedPiece =
                      [position |-> position, x |-> xy[1], y |-> xy[2]]],
                   position)
  ELSE s

\* handleSquareClick without lines 273-276: the move is made and not adopted
handleSquareClickNoAdopt(s, position) ==
  IF s.game = NoGame THEN s
  ELSE IF s.selectedPiece = NoSquare
       THEN (IF IsOwnPiece(s.game, position) THEN Select(s, position) ELSE s)
  ELSE LET r == Move(s.game, s.selectedPiece, position, PromotionChoice) IN
       IF r.ok THEN Deselect(s)
       ELSE IF IsOwnPiece(s.game, position) THEN Select(s, position)
       ELSE Deselect(s)

\* handleSquareClick with the catch block of handleDrop: a rejected move
\* always clears the selection
handleSquareClickAlwaysDeselect(s, position) ==
  IF s.game = NoGame THEN s
  ELSE IF s.selectedPiece = NoSquare
       THEN (IF IsOwnPiece(s.game, position) THEN Select(s, position) ELSE s)
  ELSE LET r == Move(s.game, s.selectedPiece, position, PromotionChoice) IN
       IF r.ok THEN Deselect(AdoptMove(s, r.game))
       ELSE Deselect(s)

handleSquareClick(s, position) ==
  IF s.game = NoGame THEN s
  ELSE IF s.selectedPiece = NoSquare
       THEN (IF IsOwnPiece(s.game, position) THEN Select(s, position) ELSE s)
  ELSE LET r == Move(s.game, s.selectedPiece, position, PromotionChoice) IN
       IF r.ok THEN Deselect(AdoptMove(s, r.game))
       ELSE IF IsOwnPiece(s.game, position) THEN Select(s, position)
       ELSE Deselect(s)

\* handleDrop with the catch block of handleSquareClick
handleDropReselecting(s, targetPosition) ==
  IF s.game = NoGame \/ s.selectedPiece = NoSquare THEN s
  ELSE LET r == Move(s.game, s.selectedPiece, targetPosition, PromotionChoice) IN
       IF r.ok THEN [Deselect(AdoptMove(s, r.game)) EXCEPT !.draggedPiece = NoDrag]
       ELSE IF IsOwnPiece(s.game, targetPosition) THEN Select(s, targetPosition)
       ELSE [Deselect(s) EXCEPT !.draggedPiece = NoDrag]

\* handleDrop whose catch block starts a new game
handleDropResetting(s, targetPosition) ==
  IF s.game = NoGame \/ s.selectedPiece = NoSquare THEN s
  ELSE LET r == Move(s.game, s.selectedPiece, targetPosition, PromotionChoice)
           t == IF r.ok THEN AdoptMove(s, r.game)
                ELSE [s EXCEPT !.game = NewChess, !.board = BoardMatrix(NewChess)]
       IN [Deselect(t) EXCEPT !.draggedPiece = NoDrag]

handleDrop(s, targetPosition) ==
  IF s.game = NoGame \/ s.selectedPiece = NoSquare THEN s
  ELSE LET r == Move(s.game, s.selectedPiece, targetPosition, PromotionChoice)
           t == IF r.ok THEN AdoptMove(s, r.game) ELSE s
       IN [Deselect(t) EXCEPT !.draggedPiece = NoDrag]

(***************************************************************************)
(* Rendering: what renderSquare(i, j) derives for one cell of the grid.    *)
(***************************************************************************)
\* the indices of Array(8).fill(null).map((_, i) => ...), lines 387-392
GridIndices == 0 .. (BoardSize - 1)

Themes == {"light", "dark"}

\* lines 227-236
boardTheme ==
  [light |-> [light |-> "bg-amber-50", dark |-> "bg-amber-900"],
   dark |-> [light |-> "bg-slate-300", dark |-> "bg-slate-900"]]

\* renderSquare returns null (line 319)
NoRender == [null |-> TRUE]

\* renderSquare with the shades exchanged
renderSquareOddLight(s, theme, i, j) ==
  IF s.game = NoGame THEN NoRender
  ELSE LET position == <<CharCodeA + j, BoardSize - i>>
           piece == Get(s.game, position)
           isLight == (i + j) % 2 = 1
       IN [key |-> <<i, j>>,
           position |-> position,
           piece |-> piece,
           squareColor |-> boardTheme[theme][IF isLight THEN "light" ELSE "dark"],
           isSelected |-> s.selectedPiece = position,
           isLegalMove |-> position \in s.legalMoves,
           dot |-> position \in s.legalMoves /\ piece = NoPiece]

renderSquare(s, theme, i, j) ==
  IF s.game = NoGame THEN NoRender
  ELSE LET position == <<CharCodeA + j, BoardSize - i>>
           piece == Get(s.game, position)
           isLight == (i + j) % 2 = 0
       IN [key |-> <<i, j>>,
           position |-> position,
           piece |-> piece,
           squareColor |-> boardTheme[theme][IF isLight THEN "light" ELSE "dark"],
           isSelected |-> s.selectedPiece = position,
           isLegalMove |-> position \in s.legalMoves,
           dot |-> position \in s.legalMoves /\ piece = NoPiece]

(***************************************************************************)
(* The state machine.                                                      *)
(***************************************************************************)
VARIABLES
  st,        \* the component's state
  dragging,  \* the browser has a drag of a board piece in progress
  ev,        \* history variable: the last event and what became of it
  accepted,  \* history variable: moves the engine accepted
  captures   \* history variable: accepted moves that captured a piece

vars == <<st, dragging, ev, accepted, captures>>

Event(type, sq, outcome) == [type |-> type, square |-> sq, outcome |-> outcome]

\* what a click or drop on `sq` comes to in state s
AttemptOutcome(s, sq) ==
  IF s.game = NoGame \/ s.selectedPiece = NoSquare THEN "ignored"
  ELSE IF MoveThrows(s.game, s.selectedPiece, sq, PromotionChoice) THEN "rejected"
  ELSE "accepted"

SelectOutcome(s, sq) ==
  IF s.game # NoGame /\ s.game.board[sq].color = s.game.turn
  THEN "selected" ELSE "ignored"

\* a move of the selected piece to sq takes a piece: one stands on sq, or the
\* mover is a pawn and sq is the en-passant square
Takes(s, sq) ==
  \/ s.game.board[sq] # NoPiece
  \/ s.game.board[s.selectedPiece].type = "p" /\ sq = s.game.epSquare

\* the history variables after a click or drop on `sq` that came to `outcome`
Count(s, sq, outcome) ==
  IF outcome = "accepted"
  THEN /\ accepted < MaxMoves
       /\ accepted' = accepted + 1
       /\ captures' = IF Takes(s, sq) THEN captures + 1 ELSE captures
  ELSE UNCHANGED <<accepted, captures>>

Init ==
  /\ st = Unmounted
  /\ dragging = FALSE
  /\ ev = Event("init", NoSquare, "ignored")
  /\ accepted = 0
  /\ captures = 0

Mount ==
  /\ st.game = NoGame
  /\ st' = MountEffect(st)
  /\ ev' = Event("mount", NoSquare, "ignored")
  /\ UNCHANGED <<dragging, accepted, captures>>

Click(sq) ==
  /\ ~dragging
  /\ \E outcome \in {IF st.game # NoGame /\ st.selectedPiece = NoSquare
                     THEN SelectOutcome(st, sq) ELSE AttemptOutcome(st, sq)} :
        /\ Count(st, sq, outcome)
        /\ ev' = Event("click", sq, outcome)
  /\ st' = handleSquareClick(st, sq)
  /\ UNCHANGED dragging

DragStart(sq, xy) ==
  /\ ~dragging
  /\ st' = handleDragStart(st, sq, xy)
  /\ dragging' = TRUE
  /\ ev' = Event("dragstart", sq, SelectOutcome(st, sq))
  /\ UNCHANGED <<accepted, captures>>

Drop(sq) ==
  /\ \E outcome \in {AttemptOutcome(st, sq)} :
        /\ Count(st, sq, outcome)
        /\ ev' = Event("drop", sq, outcome)
  /\ st' = handleDrop(st, sq)
  /\ dragging' = FALSE

\* the drag ends without a drop on a square: the squares register onDragOver,
\* onDrop and onClick, the pieces onDragStart (lines 336-344), nothing else
DragCancel ==
  /\ dragging
  /\ dragging' = FALSE
  /\ ev' = Event("dragend", NoSquare, "ignored")
  /\ UNCHANGED <<st, accepted, captures>>

Next ==
  \/ Mount
  \/ \E sq \in InputSquares : Click(sq)
  \/ \E sq \in InputSquares : \E xy \in Pointers : DragStart(sq, xy)
  \/ \E sq \in InputSquares : Drop(sq)
  \/ DragCancel

Spec == Init /\ [][Next]_vars

\* the same machine with the pointer events on the opening squares
NextOpening ==
  \/ Mount
  \/ \E sq \in OpeningSquares : Click(sq)
  \/ \E sq \in OpeningSquares : \E xy \in Pointers : DragStart(sq, xy)
  \/ \E sq \in OpeningSquares : Drop(sq)
  \/ DragCancel

SpecOpening == Init /\ [][NextOpening]_vars

(***************************************************************************)
(* Vocabulary of the properties.                                           *)
(***************************************************************************)
Idle(s) == s.selectedPiece = NoSquare

\* the square holds a piece of the side to move, read off the position
FriendlyAt(g, sq) == g.board[sq] # NoPiece /\ g.board[sq].color = g.turn

\* the destinations the engine reports as legal from sq
EngineDestinations(g, sq) == {m.to : m \in Moves(g, sq)}

\* piece placement, side to move and the rest of the position, without the
\* record of the moves played
Position(g) ==
  [board |-> g.board, turn |-> g.turn, castling |-> g.castling,
   epSquare |-> g.epSquare, halfMoves |-> g.halfMoves, moveNumber |-> g.moveNumber]

\* "Captures: {moveHistory.filter((move) => move.captured).length}", line 432
CapturesShown(s) ==
  Cardinality({i \in DOMAIN s.moveHistory : s.moveHistory[i].captured # "none"})

\* "Moves: {moveHistory.length}", line 430
MovesShown(s) == Len(s.moveHistory)

\* the step is a click on the square that is selected, itself selected by the
\* click before, from Idle
SecondClickOnSelected ==
  /\ ev.type = "click" /\ ev.outcome = "selected"
  /\ ev'.type = "click" /\ ev'.square = ev.square
  /\ st.selectedPiece = ev.square

(***************************************************************************)
(* Properties.                                                             *)
(***************************************************************************)
\* C1: a click that selects a friendly piece followed by a click on the same
\* square leaves the controller Idle, the destination set empty and the
\* GameState as it was.
C1_SelectThenDeselect ==
  [][SecondClickOnSelected =>
       /\ Idle(st')
       /\ st'.legalMoves = {}
       /\ st'.game = st.game]_vars

\* C2: the move-history view is as long as the number of moves the engine
\* has accepted since the initial position.
C2_HistoryCountsAcceptedMoves == MovesShown(st) = accepted

\* C3: a move attempt the engine rejects, by click or by drop, leaves the
\* GameState (and the board matrix and move history derived from it) as it
\* was; at most selection, destination set and drag state change.
C3_RejectedKeepsGameState ==
  [][ev'.outcome = "rejected" =>
       /\ st'.game = st.game
       /\ st'.board = st.board
       /\ st'.moveHistory = st.moveHistory
       /\ st'.retired = st.retired]_vars

C3_Witness ==
  /\ ev.outcome = "rejected" /\ ev.type = "drop"
  /\ accepted > 0
  /\ Idle(st)

\* C4: the displayed capture count equals the number of accepted moves that
\* captured a piece.
C4_CaptureCount == CapturesShown(st) = captures

\* C5: in Selecting, a click or drop on a square of the destination set is
\* accepted by the engine as the move from the selected square to it; the
\* controller then holds the position after that move, is Idle and has an
\* empty destination set.
C5_LegalTargetIsPlayed ==
  [][(/\ st.game # NoGame
      /\ ~Idle(st)
      /\ ev'.type \in {"click", "drop"}
      /\ ev'.square \in st.legalMoves) =>
       /\ \E m \in Moves(st.game, st.selectedPiece) :
             /\ m.to = ev'.square
             /\ Position(st'.game) = Position(MakeMove(st.game, m))
       /\ Idle(st')
       /\ st'.legalMoves = {}]_vars

C5_Witness ==
  /\ ev.type = "click" /\ ev.outcome = "accepted"
  /\ st.game.turn = "b"
  /\ Idle(st)

\* C6: in Selecting, after a click the engine rejects, the controller is
\* Selecting on the clicked square with the engine's destinations from it
\* when that square holds a piece of the side to move, and Idle with an empty
\* destination set otherwise.
C6_RejectedClick ==
  [][(ev'.type = "click" /\ ev'.outcome = "rejected") =>
       IF FriendlyAt(st.game, ev'.square)
       THEN /\ st'.selectedPiece = ev'.square
            /\ st'.legalMoves = EngineDestinations(st'.game, ev'.square)
       ELSE /\ Idle(st')
            /\ st'.legalMoves = {}]_vars

C6_Witness ==
  /\ ev.type = "click" /\ ev.outcome = "rejected"
  /\ st.selectedPiece = ev.square
  /\ st.legalMoves # {}

\* C7: in Idle, a click or drag-start on a piece of the side to move selects
\* its square with the engine's destinations from it; on an empty square or
\* an opponent's piece the controller stays Idle with an empty destination set.
C7_IdleSelects ==
  [][(/\ st.game # NoGame
      /\ Idle(st)
      /\ ev'.type \in {"click", "dragstart"}) =>
       IF FriendlyAt(st.game, ev'.square)
       THEN /\ st'.selectedPiece = ev'.square
            /\ st'.legalMoves = EngineDestinations(st.game, ev'.square)
       ELSE /\ Idle(st')
            /\ st'.legalMoves = {}]_vars

C7_Witness ==
  /\ ev.type = "dragstart" /\ ev.outcome = "selected"
  /\ st.selectedPiece = ev.square
  /\ st.legalMoves # {}

\* C8: when a drag that started on a piece of the side to move ends without
\* a drop on a square, the controller is Idle, the destination set is empty
\* and the drag state is gone.
C8_CancelledDragResets ==
  [][(/\ ev.type = "dragstart" /\ ev.outcome = "selected"
      /\ ev'.type = "dragend") =>
       /\ Idle(st')
       /\ st'.legalMoves = {}
       /\ st'.draggedPiece = NoDrag]_vars

\* C9: the destination set is empty when no square is selected, and is the
\* set of the engine's legal destinations from the selected square in the
\* held GameState when one is.
C9_DestinationsFollowSelection ==
  IF Idle(st) THEN st.legalMoves = {}
  ELSE /\ st.game # NoGame
       /\ st.legalMoves = EngineDestinations(st.game, st.selectedPiece)

C9_Witness ==
  /\ ~Idle(st)
  /\ accepted > 0
  /\ st.legalMoves # {}

\* C10: a selected square holds, in the held GameState, a piece of the side
\* to move.
C10_SelectedIsFriendly ==
  ~Idle(st) => st.game # NoGame /\ FriendlyAt(st.game, st.selectedPiece)

C10_Witness ==
  /\ ~Idle(st)
  /\ st.game.turn = "b"
  /\ st.game.board[st.selectedPiece] = Piece("b", "p")

\* C11: the engine object the controller holds is never changed in place: the
\* object replaced by an accepted move still describes the position before the
\* move, and a rejected move leaves the held object as it was.
C11_SnapshotsNotMutated ==
  [][/\ ev'.outcome = "accepted" => st'.retired = st.game
     /\ ev'.outcome = "rejected" => st'.game = st.game]_vars

\* C12: an accepted move gives the move to the other colour and no other
\* pointer event changes the side to move; from the start position the
\* destinations of a selected e2 include e4, and e2-e4 leaves black to move.
C12_SideToMove ==
  [][st.game # NoGame =>
       /\ st'.game.turn = IF ev'.outcome = "accepted" THEN Other(st.game.turn)
                          ELSE st.game.turn
       /\ (Position(st'.game) = Position(NewChess)
           /\ st'.selectedPiece = <<FileOf(4), 2>>)
          => <<FileOf(4), 4>> \in st'.legalMoves
       /\ (Position(st.game) = Position(NewChess)
           /\ st.selectedPiece = <<FileOf(4), 2>>
           /\ ev'.type \in {"click", "drop"}
           /\ ev'.square = <<FileOf(4), 4>>)
          => ev'.outcome = "accepted" /\ st'.game.turn = "b"]_vars

C12_Witness ==
  /\ ev.outcome = "accepted" /\ ev.square = <<FileOf(4), 4>>
  /\ accepted = 1
  /\ st.game.turn = "b"
  /\ st.game.board[<<FileOf(4), 4>>] = Piece("w", "p")

\* the accepted move from -> to takes a pawn to its last rank
Promotes(g, from, to) ==
  g.board[from].type = "p" /\ to[2] = PawnLastRank(g.board[from].color)

\* C13: after a move from -> to accepted through a click or a drop, the held
\* GameState has on `to` the piece that stood on `from` (a queen of its colour
\* when the move promotes a pawn) and has `from` empty.
C13_MovedPieceArrives ==
  [][ev'.outcome = "accepted" =>
       /\ st'.game.board[st.selectedPiece] = NoPiece
       /\ st'.game.board[ev'.square] =
            IF Promotes(st.game, st.selectedPiece, ev'.square)
            THEN Piece(st.game.board[st.selectedPiece].color, "q")
            ELSE st.game.board[st.selectedPiece]]_vars

C13_Witness ==
  /\ ev.outcome = "accepted"
  /\ ev.square[2] = BoardSize
  /\ st.game.board[ev.square] = Piece("w", "q")
  /\ st.game.board[<<FileOf(6), 7>>] = NoPiece

\* C14: the move the engine makes for the controller promotes to a queen or
\* not at all: a pawn that reaches its last rank becomes a queen, never a
\* rook, bishop or knight.
C14_QueenOnly ==
  [][ev'.outcome = "accepted" =>
       /\ st'.retired.history[Len(st'.retired.history)].promotion
            \in {"none", "q"}
       /\ Promotes(st.game, st.selectedPiece, ev'.square) =>
            /\ st'.retired.history[Len(st'.retired.history)].promotion = "q"
            /\ st'.game.board[ev'.square].type = "q"]_vars

C14_Witness ==
  /\ ev.outcome = "accepted"
  /\ st.retired # NoGame
  /\ st.retired.history[Len(st.retired.history)].promotion = "q"
  /\ st.game.board[ev.square].type = "q"

\* C15: the drag state is present only while a drag is in progress, and is
\* absent after every click and every drop.
C15_DragStateEphemeral ==
  /\ st.draggedPiece # NoDrag => dragging
  /\ ev.type \in {"click", "drop"} => st.draggedPiece = NoDrag

\* C16: while the engine reference is null, a click, a drag-start and a drop
\* change nothing of the component's state.
C16_NoEngineNoEffect ==
  [][(st.game = NoGame /\ ev'.type \in {"click", "dragstart", "drop"}) =>
       st' = st]_vars

C16_Witness ==
  /\ st.game = NoGame
  /\ ev.type = "dragstart"
  /\ dragging

\* C17: a drop handled while a square is selected leaves the controller Idle,
\* without drag state and with an empty destination set, whether the engine
\* accepts the move or not and whatever stands on the target.
C17_DropEndsSelection ==
  [][(st.game # NoGame /\ ~Idle(st) /\ ev'.type = "drop") =>
       /\ Idle(st')
       /\ st'.draggedPiece = NoDrag
       /\ st'.legalMoves = {}]_vars

C17_Witness ==
  /\ ev.type = "drop" /\ ev.outcome = "rejected"
  /\ FriendlyAt(st.game, ev.square)
  /\ Idle(st)

\* the cells of the grid rendered in state s under a theme
Cells(s, theme) ==
  {renderSquare(s, theme, ij[1], ij[2]) : ij \in GridIndices \X GridIndices}

\* C18: the 64 cells (row, col) are rendered for the 64 squares, one each,
\* with file 'a' + col and rank 8 - row; a cell shows the occupant of its
\* square, is shaded light exactly when row + col is even, is marked selected
\* exactly when its square is the selected one and marked as a destination
\* exactly when its square is in the destination set.
C18_Rendering ==
  st.game # NoGame =>
    \A theme \in Themes :
      /\ {c.position : c \in Cells(st, theme)} = Squares
      /\ Cardinality(Cells(st, theme)) = Cardinality(Squares)
      /\ \A c \in Cells(st, theme) :
            /\ c.position[1] - CharCodeA = c.key[2]
            /\ c.position[2] = BoardSize - c.key[1]
            /\ c.piece = st.game.board[c.position]
            /\ (c.squareColor = boardTheme[theme].light)
                 <=> ((c.key[1] + c.key[2]) % 2 = 0)
            /\ (c.squareColor = boardTheme[theme].dark)
                 <=> ((c.key[1] + c.key[2]) % 2 = 1)
            /\ c.isSelected <=> (c.position = st.selectedPiece)
            /\ c.isLegalMove <=> (c.position \in st.legalMoves)

C18_Witness ==
  /\ st.game # NoGame
  /\ accepted > 0
  /\ \E c \in Cells(st, "dark") : c.isSelected /\ c.piece.type = "p"
  /\ \E c \in Cells(st, "dark") : c.isLegalMove /\ c.piece # NoPiece

\* C19: a drop that makes a move moves the piece the drag started on: the
\* origin of the move is the square of the drag-start event before the drop.
C19_DropMovesDraggedPiece ==
  [][(/\ ev'.type = "drop" /\ ev'.outcome = "accepted"
      /\ dragging /\ ev.type = "dragstart"
      /\ st.game.board[ev.square] # NoPiece) =>
       st.selectedPiece = ev.square]_vars

\* C20: a drag-start changes neither the GameState nor the move history; in
\* Selecting, on a piece of the side to move it replaces selection and
\* destination set by those of the dragged square, and on an opponent's piece
\* it leaves selection, destination set and drag state as they were.
C20_DragStartFrame ==
  [][ev'.type = "dragstart" =>
       /\ st'.game = st.game
       /\ st'.board = st.board
       /\ st'.moveHistory = st.moveHistory
       /\ (st.game # NoGame /\ ~Idle(st)) =>
            IF FriendlyAt(st.game, ev'.square)
            THEN /\ st'.selectedPiece = ev'.square
                 /\ st'.legalMoves = EngineDestinations(st.game, ev'.square)
                 /\ st'.draggedPiece.position = ev'.square
            ELSE /\ st.game.board[ev'.square] # NoPiece =>
                      /\ st'.selectedPiece = st.selectedPiece
                      /\ st'.legalMoves = st.legalMoves
                      /\ st'.draggedPiece = st.draggedPiece]_vars

C20_Witness ==
  /\ ev.type = "dragstart" /\ ev.outcome = "ignored"
  /\ st.game # NoGame
  /\ ~Idle(st)
  /\ st.game.board[ev.square].color = Other(st.game.turn)
  /\ st.legalMoves # {}

====
